---- MODULE Spec2Model ----
(***************************************************************************)
(* large-vcs: a content-addressed store of immutable objects, named patch  *)
(* manifests (fingerprint -> relative path), a current pointer and a       *)
(* working tree of hardlinks.  The model follows                           *)
(* src/large_vcs/__init__.py: one coordinator (the calling process) and    *)
(* the tasks of its multiprocessing pools.  A copy into the store          *)
(* (shutil.copyfile) takes time and can be cut short; the small JSON files *)
(* (a manifest, current.json) are written in one step.                     *)
(***************************************************************************)
EXTENDS Naturals, Sequences, FiniteSets, TLC

\* ---------------------------------------------------------------- bounds
MaxOps == 4            \* operations the caller starts in one behaviour

\* -------------------------------------------------------- program constant
PoolSize == 4          \* Pool(4, ...)

\* ------------------------------------------------------------- universes
Tags == {"v1", "v2"}
Contents == {"x", "y"}                \* file bytes
Paths == {"a", "d/e/c"}               \* relative paths below a directory
Dirs == {"", "d", "d/e"}              \* "" is the root of the directory
None == "none"                        \* absent current.json / Python None

\* os.path.dirname on a relative path
dirname(p) == CASE p = "a" -> ""
                [] p = "d/e/c" -> "d/e"
                [] p = "d" -> ""
                [] p = "d/e" -> "d"
                [] OTHER -> ""

\* every directory os.makedirs(dirname(p), exist_ok=True) makes sure of
RECURSIVE ancestors(_)
ancestors(d) == IF d = "" THEN {""} ELSE {d} \cup ancestors(dirname(d))

\* a digest that does not depend on the bytes
hash_file_constant(c) == "hx"

\* hash_file: SHA-256 of the bytes as a hex digest (injective on Contents)
hash_file(c) == CASE c = "x" -> "hx"
                  [] c = "y" -> "hy"
                  [] OTHER -> "hz"

Fingerprints == {hash_file(c) : c \in Contents}

\* dictionaries / directories as functions on the keys that exist
Put(f, k, v) == [z \in (DOMAIN f) \cup {k} |-> IF z = k THEN v ELSE f[z]]
Del(f, k) == [z \in (DOMAIN f) \ {k} |-> f[z]]
Empty == [z \in {} |-> None]
Values(f) == {f[k] : k \in DOMAIN f}

VARIABLES
    objects,   \* <repo>/files: fingerprint -> [data, ro]   (one inode each)
    patches,   \* <repo>/patches: tag -> manifest (fingerprint -> path)
    current,   \* <repo>/current.json: a tag, or None when the file is absent
    tree,      \* working tree files: path -> fingerprint of the linked inode
    dirs,      \* working tree directories that exist
    pc,        \* position of the coordinator
    op,        \* locals of the running operation
    tasks,     \* tasks of worker pools that are queued or running
    last,      \* the operation that returned last, with its outcome
    ops        \* number of operations started

vars == <<objects, patches, current, tree, dirs, pc, op, tasks, last, ops>>

(***************************************************************************)
(* Locals of an operation.  unlinked/linked record the working-tree paths  *)
(* the operation itself removed and created.                               *)
(***************************************************************************)
NoOp == [name |-> "none", tag |-> None, clean |-> FALSE, cur |-> None,
         files |-> Empty, with_hash |-> << >>, patch |-> Empty,
         old |-> Empty, add |-> {}, delete |-> {}, set_read_only |-> {},
         unlinked |-> {}, linked |-> {}, to_remove |-> {}]

\* what the caller can tell of an operation once it has returned; disturbed
\* tells whether some operation so far was interrupted or failed half-way,
\* dropped whether some drop so far removed a manifest
Returned(o, result, disturbed, dropped) ==
    [name |-> o.name, tag |-> o.tag, clean |-> o.clean, cur |-> o.cur,
     files |-> o.files, patch |-> o.patch, old |-> o.old, unlinked |-> o.unlinked,
     linked |-> o.linked, to_remove |-> o.to_remove, result |-> result,
     disturbed |-> disturbed, dropped |-> dropped]

Init ==
    /\ objects = Empty
    /\ patches = Empty
    /\ current = None
    /\ tree = Empty
    /\ dirs = {}
    /\ pc = "idle"
    /\ op = NoOp
    /\ tasks = {}
    /\ last = Returned(NoOp, "none", FALSE, FALSE)
    /\ ops = 0

\* the coordinator returns (or raises) to its caller
Return(o, result) ==
    /\ pc' = "idle"
    /\ op' = NoOp
    /\ last' = Returned(o, result,
                         last.disturbed \/ result \in {"interrupted", "error"},
                         last.dropped \/ (o.name = "drop" /\ result = "ok"))

Call == pc = "idle" /\ ops < MaxOps /\ ops' = ops + 1

\* ------------------------------------------------------------------ pool
PoolTasks == {t \in tasks : ~t.orphan}
Running(ts) == {t \in ts : t.st \in {"writing", "stale", "copied"}}

\* pool.terminate(); pool.join(): the workers of this pool are killed
Terminate(ts) == {t \in ts : t.orphan}
\* an exception other than KeyboardInterrupt: only pool.close() runs, the
\* tasks already submitted are still executed by the workers
Abandon(ts) == {[t EXCEPT !.orphan = TRUE] : t \in {u \in ts : u.st # "failed"}}

\* the orders in which an unordered batch or a directory listing can come
Orders(S) == {s \in [1..Cardinality(S) -> S] : \A i, j \in DOMAIN s : s[i] = s[j] => i = j}

FS == <<objects, patches, current, tree, dirs>>

\* ------------------------------------------------------------------- add
TargetDirs == UNION {[S -> Contents] : S \in SUBSET Paths}

\* _hash_file over all_files, results in completion order
WithHash(files, order) ==
    [i \in DOMAIN order |-> [rel_path |-> order[i], checksum |-> hash_file(files[order[i]])]]

\* every file is stored again, whether or not its object exists
ToAdd_all(with_hash, objs) == with_hash

\* the existence test of to_add inverted
ToAdd_inverted(with_hash, objs) == SelectSeq(with_hash, LAMBDA e : e.checksum \in DOMAIN objs)

\* the files whose object is not in the store yet
ToAdd(with_hash, objs) == SelectSeq(with_hash, LAMBDA e : e.checksum \notin DOMAIN objs)

\* {checksum: rel_path for _, rel_path, checksum in with_hash}
RECURSIVE PatchOf(_)
PatchOf(with_hash) ==
    IF with_hash = << >> THEN Empty
    ELSE LET n == Len(with_hash)
         IN Put(PatchOf(SubSeq(with_hash, 1, n - 1)), with_hash[n].checksum, with_hash[n].rel_path)

StoreTasks(to_add) ==
    {[kind |-> "store", h |-> to_add[i].checksum, p |-> to_add[i].rel_path,
      st |-> "queued", orphan |-> FALSE] : i \in DOMAIN to_add}

\* no manifest is ever found
PatchExists_never(ps, tag) == FALSE

\* os.path.exists(patch_path)
PatchExists(ps, tag) == tag \in DOMAIN ps

Add(target, tag) ==
    /\ Call
    /\ LET o == [NoOp EXCEPT !.name = "add", !.tag = tag, !.cur = current]
       IN IF PatchExists(patches, tag)
          THEN Return(o, "exists")
          ELSE /\ pc' = "hash"
               /\ op' = [o EXCEPT !.files = target]
               /\ last' = last
    /\ UNCHANGED <<FS, tasks>>

\* the manifest written as soon as the hashes are known, before the storing batch
AddHashed_early ==
    /\ pc = "hash"
    /\ \E order \in Orders(DOMAIN op.files) :
          LET with_hash == WithHash(op.files, order)
          IN /\ op' = [op EXCEPT !.with_hash = with_hash]
             /\ tasks' = tasks \cup StoreTasks(ToAdd(with_hash, objects))
             /\ patches' = Put(patches, op.tag, PatchOf(with_hash))
    /\ pc' = "store"
    /\ UNCHANGED <<objects, current, tree, dirs, last, ops>>

\* the hashing batch is complete; to_add is built and the storing batch submitted
AddHashed ==
    /\ pc = "hash"
    /\ \E order \in Orders(DOMAIN op.files) :
          LET with_hash == WithHash(op.files, order)
          IN /\ op' = [op EXCEPT !.with_hash = with_hash]
             /\ tasks' = tasks \cup StoreTasks(ToAdd(with_hash, objects))
    /\ pc' = "store"
    /\ UNCHANGED <<FS, last, ops>>

\* shutil.copyfile opens dst for writing: creates or truncates it; a copy
\* begun earlier on the same inode no longer decides what the file holds
Supersede(u, t) ==
    IF u = t THEN [t EXCEPT !.st = "writing"]
    ELSE IF u.kind = "store" /\ u.h = t.h /\ u.st = "writing" THEN [u EXCEPT !.st = "stale"]
    ELSE u

Fail(ts, t) == IF t.orphan THEN ts \ {t} ELSE (ts \ {t}) \cup {[t EXCEPT !.st = "failed"]}

\* opening a read-only file for writing is refused (PermissionError)
StoreOpen(t) ==
    /\ t \in tasks /\ t.kind = "store" /\ t.st = "queued"
    /\ Cardinality(Running({u \in tasks : u.orphan = t.orphan})) < PoolSize
    /\ IF t.h \in DOMAIN objects /\ objects[t.h].ro
       THEN /\ tasks' = Fail(tasks, t)
            /\ UNCHANGED objects
       ELSE /\ objects' = Put(objects, t.h, [data |-> "partial", ro |-> FALSE])
            /\ tasks' = {Supersede(u, t) : u \in tasks}
    /\ UNCHANGED <<patches, current, tree, dirs, pc, op, last, ops>>

\* the worker has written the last block of its copy
StoreCopy(t) ==
    /\ t \in tasks /\ t.kind = "store" /\ t.st \in {"writing", "stale"}
    /\ \E d \in {"partial", "complete"} :
          /\ t.st = "writing" => d = "complete"
          /\ (t.st = "stale" /\ ~\E u \in tasks : u.kind = "store" /\ u.h = t.h /\ u.st = "writing")
                => d = objects[t.h].data
          /\ (t.st = "stale" /\ objects[t.h].data = "complete") => d = "complete"
          /\ objects' = [objects EXCEPT ![t.h].data = d]
    /\ tasks' = (tasks \ {t}) \cup {[t EXCEPT !.st = "copied"]}
    /\ UNCHANGED <<patches, current, tree, dirs, pc, op, last, ops>>

\* os.chmod(dst, stat.S_IREAD)
StoreChmod(t) ==
    /\ t \in tasks /\ t.kind = "store" /\ t.st = "copied"
    /\ objects' = [objects EXCEPT ![t.h].ro = TRUE]
    /\ tasks' = tasks \ {t}
    /\ UNCHANGED <<patches, current, tree, dirs, pc, op, last, ops>>

\* both batches are done: the manifest is written
AddCommit ==
    /\ pc = "store"
    /\ PoolTasks = {}
    /\ patches' = Put(patches, op.tag, PatchOf(op.with_hash))
    /\ Return([op EXCEPT !.patch = PatchOf(op.with_hash)], "ok")
    /\ UNCHANGED <<objects, current, tree, dirs, tasks, ops>>

\* a task raised: the exception leaves the operation through finally: pool.close()
TaskError ==
    /\ pc \in {"store", "link"}
    /\ \E t \in PoolTasks : t.st = "failed"
    /\ tasks' = Abandon(tasks)
    /\ Return(op, "error")
    /\ UNCHANGED <<FS, ops>>

\* KeyboardInterrupt in the coordinator (the workers ignore SIGINT)
Interrupt ==
    /\ pc # "idle"
    /\ tasks' = Terminate(tasks)
    /\ Return(op, "interrupted")
    /\ UNCHANGED <<FS, ops>>

\* the workers of a closed pool end with it (finalizer, or exit of the process)
Reap ==
    /\ \E t \in tasks : t.orphan
    /\ tasks' = PoolTasks
    /\ UNCHANGED <<FS, pc, op, last, ops>>

\* --------------------------------------------------------------- restore
\* the fast path never taken
IsNoop_never(tag, clean, cur) == FALSE

\* the no-op fast path: if not clean and tag == current
IsNoop(tag, clean, cur) == ~clean /\ tag = cur

\* add = new_keys.difference(current_keys)
DiffAdd(new_keys, current_keys) == new_keys \ current_keys
\* set_read_only = current_keys.difference(new_keys)
DiffReadOnly(new_keys, current_keys) == current_keys \ new_keys
\* delete = [current_patch[checksum] for checksum in set_read_only]
DiffDelete(current_patch, set_read_only) == {current_patch[c] : c \in set_read_only}

LinkTasks(add, patch) ==
    {[kind |-> "link", h |-> c, p |-> patch[c], st |-> "queued", orphan |-> FALSE] : c \in add}

\* pool.imap_unordered(self._restore_file, add)
StartLink(o) ==
    /\ pc' = "link"
    /\ op' = o
    /\ tasks' = tasks \cup LinkTasks(o.add, o.patch)
    /\ last' = last

Restore(tag, clean) ==
    /\ Call
    /\ LET o == [NoOp EXCEPT !.name = "restore", !.tag = tag, !.clean = clean, !.cur = current]
       IN IF ~PatchExists(patches, tag)
          THEN Return(o, "missing") /\ tasks' = tasks
          ELSE IF IsNoop(tag, clean, current)
          THEN Return(o, "already") /\ tasks' = tasks
          ELSE LET patch == patches[tag]
                   new_keys == DOMAIN patch
                   all == [o EXCEPT !.patch = patch, !.add = new_keys]
               IN IF clean
                  THEN IF current = None
                       THEN StartLink(all)
                       ELSE IF current \notin DOMAIN patches
                       THEN Return(all, "error") /\ tasks' = tasks
                       ELSE pc' = "clean_chmod" /\ op' = all /\ last' = last /\ tasks' = tasks
                  ELSE IF current # None
                  THEN IF current \notin DOMAIN patches
                       THEN Return(all, "error") /\ tasks' = tasks
                       ELSE LET current_patch == patches[current]
                                current_keys == DOMAIN current_patch
                                set_read_only == DiffReadOnly(new_keys, current_keys)
                                delete == DiffDelete(current_patch, set_read_only)
                                diff == [all EXCEPT !.old = current_patch,
                                                    !.add = DiffAdd(new_keys, current_keys),
                                                    !.set_read_only = set_read_only,
                                                    !.delete = delete]
                            IN IF delete # {}
                               THEN pc' = "unlink" /\ op' = diff /\ last' = last /\ tasks' = tasks
                               ELSE StartLink(diff)
                  ELSE StartLink(all)
    /\ UNCHANGED FS

\* os.rmdir(dir_path), OSError ignored: only an existing empty directory goes
Rmdir(ds, tr, d) ==
    IF /\ d \in ds
       /\ ~\E p \in DOMAIN tr : dirname(p) = d
       /\ ~\E e \in ds : e # "" /\ dirname(e) = d
    THEN ds \ {d} ELSE ds

\* one round of the loop over delete: chmod, unlink, rmdir
RestoreUnlink(p) ==
    /\ pc = "unlink"
    /\ p \in op.delete
    /\ IF p \notin DOMAIN tree
       THEN /\ Return(op, "error")
            /\ UNCHANGED <<objects, tree, dirs>>
       ELSE /\ objects' = [objects EXCEPT ![tree[p]].ro = FALSE]
            /\ tree' = Del(tree, p)
            /\ dirs' = Rmdir(dirs, Del(tree, p), dirname(p))
            /\ pc' = IF op.delete = {p} THEN "seal" ELSE "unlink"
            /\ op' = [op EXCEPT !.delete = @ \ {p}, !.unlinked = @ \cup {p}]
            /\ last' = last
    /\ UNCHANGED <<patches, current, tasks, ops>>

\* for checksum in set_read_only: os.chmod(..., stat.S_IREAD)
RestoreSeal ==
    /\ pc = "seal"
    /\ IF op.set_read_only \subseteq DOMAIN objects
       THEN /\ objects' = [c \in DOMAIN objects |->
                             IF c \in op.set_read_only
                             THEN [objects[c] EXCEPT !.ro = TRUE] ELSE objects[c]]
            /\ StartLink(op)
       ELSE /\ Return(op, "error")
            /\ UNCHANGED <<objects, tasks>>
    /\ UNCHANGED <<patches, current, tree, dirs, ops>>

\* _restore_file: os.makedirs(parent_dir, exist_ok=True); os.link(src, dst)
LinkFile(t) ==
    /\ t \in tasks /\ t.kind = "link" /\ t.st = "queued"
    /\ dirs' = dirs \cup ancestors(dirname(t.p))
    /\ IF t.h \notin DOMAIN objects \/ t.p \in DOMAIN tree
       THEN /\ tasks' = Fail(tasks, t)
            /\ UNCHANGED <<tree, op>>
       ELSE /\ tree' = Put(tree, t.p, t.h)
            /\ tasks' = tasks \ {t}
            /\ op' = IF t.orphan THEN op ELSE [op EXCEPT !.linked = @ \cup {t.p}]
    /\ UNCHANGED <<objects, patches, current, pc, last, ops>>

\* json.dump(tag, file) into current.json
RestoreCommit ==
    /\ pc = "link"
    /\ PoolTasks = {}
    /\ current' = op.tag
    /\ Return(op, "ok")
    /\ UNCHANGED <<objects, patches, tree, dirs, tasks, ops>>

\* ----------------------------------------------------------------- clean
Clean ==
    /\ Call
    /\ LET o == [NoOp EXCEPT !.name = "clean", !.cur = current]
       IN IF current = None
          THEN Return(o, "noop")
          ELSE IF current \notin DOMAIN patches
          THEN Return(o, "error")
          ELSE pc' = "clean_chmod" /\ op' = o /\ last' = last
    /\ UNCHANGED <<FS, tasks>>

\* the walk over the working tree: os.chmod(file, stat.S_IWRITE)
CleanChmod ==
    /\ pc = "clean_chmod"
    /\ objects' = [c \in DOMAIN objects |->
                     IF c \in Values(tree) THEN [objects[c] EXCEPT !.ro = FALSE] ELSE objects[c]]
    /\ pc' = "clean_rmtree"
    /\ UNCHANGED <<patches, current, tree, dirs, op, tasks, last, ops>>

\* shutil.rmtree(self.current_path()), FileNotFoundError ignored
CleanRmtree ==
    /\ pc = "clean_rmtree"
    /\ tree' = Empty
    /\ dirs' = {}
    /\ pc' = "clean_seal"
    /\ UNCHANGED <<objects, patches, current, op, tasks, last, ops>>

\* for file in os.listdir(files): os.chmod(file, stat.S_IREAD)
CleanSeal ==
    /\ pc = "clean_seal"
    /\ objects' = [c \in DOMAIN objects |-> [objects[c] EXCEPT !.ro = TRUE]]
    /\ pc' = "clean_unlink"
    /\ UNCHANGED <<patches, current, tree, dirs, op, tasks, last, ops>>

\* os.unlink(current.json); restore(clean=True) goes on to link
CleanUnlink ==
    /\ pc = "clean_unlink"
    /\ current' = None
    /\ IF op.name = "clean"
       THEN Return(op, "ok") /\ tasks' = tasks
       ELSE StartLink(op)
    /\ UNCHANGED <<objects, patches, tree, dirs, ops>>

\* ------------------------------------------------------------------ drop
\* the assertion on the current tag left out, or inverted
DropAllowed_always(cur, tag) == TRUE
DropAllowed_inverted(cur, tag) == cur = tag

\* assert self.current() != tag
DropAllowed(cur, tag) == cur # tag

\* the loop over the remaining manifests, in glob order, with its early exit
RECURSIVE ToRemove(_, _, _)
ToRemove(to_remove, order, ps) ==
    IF order = << >> THEN to_remove
    ELSE LET used_checksums == Values(ps[Head(order)])
             rest == to_remove \ used_checksums
         IN IF rest = {} THEN rest ELSE ToRemove(rest, Tail(order), ps)

Drop(tag) ==
    /\ Call
    /\ LET o == [NoOp EXCEPT !.name = "drop", !.tag = tag, !.cur = current]
       IN IF ~DropAllowed(current, tag)
          THEN Return(o, "current") /\ UNCHANGED patches
          ELSE IF ~PatchExists(patches, tag)
          THEN Return(o, "missing") /\ UNCHANGED patches
          ELSE \E order \in Orders(DOMAIN patches \ {tag}) :
                 /\ patches' = Del(patches, tag)
                 /\ Return([o EXCEPT !.patch = patches[tag],
                                     !.to_remove = ToRemove(DOMAIN patches[tag], order, Del(patches, tag))],
                           "ok")
    /\ UNCHANGED <<objects, current, tree, dirs, tasks>>

\* ------------------------------------------------------------------ next
Next ==
    \/ \E target \in TargetDirs, tag \in Tags : Add(target, tag)
    \/ AddHashed
    \/ \E t \in tasks : StoreOpen(t)
    \/ \E t \in tasks : StoreCopy(t)
    \/ \E t \in tasks : StoreChmod(t)
    \/ AddCommit
    \/ TaskError
    \/ Interrupt
    \/ Reap
    \/ \E tag \in Tags, clean \in BOOLEAN : Restore(tag, clean)
    \/ \E p \in Paths : RestoreUnlink(p)
    \/ RestoreSeal
    \/ \E t \in tasks : LinkFile(t)
    \/ RestoreCommit
    \/ Clean
    \/ CleanChmod
    \/ CleanRmtree
    \/ CleanSeal
    \/ CleanUnlink
    \/ \E tag \in Tags : Drop(tag)

Spec == Init /\ [][Next]_vars

TypeOK ==
    /\ DOMAIN objects \subseteq Fingerprints
    /\ \A c \in DOMAIN objects : objects[c].data \in {"partial", "complete"} /\ objects[c].ro \in BOOLEAN
    /\ DOMAIN patches \subseteq Tags
    /\ \A t \in DOMAIN patches : DOMAIN patches[t] \subseteq Fingerprints /\ Values(patches[t]) \subseteq Paths
    /\ current \in Tags \cup {None}
    /\ DOMAIN tree \subseteq Paths /\ Values(tree) \subseteq Fingerprints
    /\ dirs \subseteq Dirs
    /\ ops \in 0..MaxOps

\* ================================================================ claims
Referenced(c) == \E t \in DOMAIN patches : c \in DOMAIN patches[t]
RestoreReturned(result) == pc = "idle" /\ last.name = "restore" /\ last.result = result

\* C1: after a successful restore(tag, clean), reached through operations
\* that all ran to their end, the set of working-tree paths is exactly the
\* set of paths of the manifest of tag, and each path is linked to the
\* object the manifest maps to it.
C1_TreeEqualsManifest ==
    (RestoreReturned("ok") /\ ~last.disturbed) =>
        /\ DOMAIN tree = Values(last.patch)
        /\ \A c \in DOMAIN last.patch : tree[last.patch[c]] = c

\* C2: after a successful drop(tag), every object keyed by the dropped
\* manifest and by no remaining manifest is absent from the store, and every
\* object keyed by a remaining manifest is present.
C2_DropCollects ==
    (pc = "idle" /\ last.name = "drop" /\ last.result = "ok") =>
        /\ \A c \in DOMAIN last.patch : ~Referenced(c) => c \notin DOMAIN objects
        /\ \A c \in Fingerprints : Referenced(c) => c \in DOMAIN objects

\* C3: every fingerprint that is a key of a persisted manifest names an
\* object that exists in the store.
C3_NoDanglingReference ==
    \A t \in DOMAIN patches : DOMAIN patches[t] \subseteq DOMAIN objects

\* a drop succeeded and a surviving manifest shares a key with the dropped one
C3_Witness ==
    /\ pc = "idle" /\ last.name = "drop" /\ last.result = "ok"
    /\ \E t \in DOMAIN patches : DOMAIN patches[t] \cap DOMAIN last.patch # {}

\* C4: every object a persisted manifest references holds the complete
\* bytes of its fingerprint, also after an earlier add was interrupted while
\* the object was partly copied.
C4_NoCorruptedObject ==
    \A t \in DOMAIN patches : \A c \in DOMAIN patches[t] :
        c \in DOMAIN objects /\ objects[c].data = "complete"

\* C5: the Current Pointer is absent or names a tag whose manifest exists.
C5_CurrentNamesManifest == current = None \/ current \in DOMAIN patches

\* a drop succeeded while a tag was current
C5_Witness ==
    /\ current # None
    /\ pc = "idle" /\ last.name = "drop" /\ last.result = "ok"

IncrementalReturned == RestoreReturned("ok") /\ ~last.clean /\ last.cur # None

\* C6: in restore(v2, clean=false) from On(v1) the paths unlinked
\* are exactly the paths of v1 absent from v2, the paths linked are exactly
\* the paths of v2 absent from v1, and a path of both is neither.
C6_PathDiff ==
    IncrementalReturned =>
        /\ last.unlinked = Values(last.old) \ Values(last.patch)
        /\ last.linked = Values(last.patch) \ Values(last.old)
        /\ \A p \in Values(last.old) \cap Values(last.patch) :
              p \notin last.unlinked \cup last.linked

\* C7: restore(tag, clean=false) called while the Current Pointer is tag
\* returns at once and leaves the working tree, the store, the manifests,
\* the pointer and the pool untouched.
C7_RestoreCurrentIsNoop ==
    [][(/\ pc = "idle" /\ ops' # ops
        /\ \/ pc' # "idle" /\ op'.name = "restore" /\ ~op'.clean /\ op'.tag = current
           \/ pc' = "idle" /\ last'.name = "restore" /\ ~last'.clean /\ last'.tag = current)
       => /\ pc' = "idle" /\ last'.result = "already"
          /\ UNCHANGED <<objects, patches, current, tree, dirs, tasks>>]_vars

C7_Witness == RestoreReturned("already") /\ DOMAIN tree # {}

\* C8: drop(tag) called while the Current Pointer is tag fails and leaves
\* every manifest, every object, the working tree and the pointer unchanged.
C8_DropCurrentRefused ==
    [][(/\ pc = "idle" /\ ops' # ops
        /\ pc' = "idle" /\ last'.name = "drop" /\ last'.tag = current)
       => /\ last'.result = "current"
          /\ UNCHANGED <<objects, patches, current, tree, dirs>>]_vars

C8_Witness == pc = "idle" /\ last.name = "drop" /\ last.result = "current"

\* C9: an add interrupted in its hashing or storing batch leaves no
\* manifest for its tag, no step of it changes a manifest or the pointer,
\* and the next add of the same tag is not rejected as already existing.
C9_AddAtomic ==
    /\ []((pc = "idle" /\ last.name = "add" /\ last.result = "interrupted")
            => last.tag \notin DOMAIN patches)
    /\ [][(pc \in {"hash", "store"} /\ ~(pc' = "idle" /\ last'.result = "ok"))
            => UNCHANGED <<patches, current>>]_vars
    /\ [][(/\ pc = "idle" /\ last.name = "add" /\ last.result = "interrupted"
            /\ ops' # ops /\ pc' = "idle"
            /\ last'.name = "add" /\ last'.tag = last.tag)
            => last'.result # "exists"]_vars

\* an add was interrupted after a worker had begun to copy
C9_Witness ==
    /\ pc = "idle" /\ last.name = "add" /\ last.result = "interrupted"
    /\ \E c \in DOMAIN objects : objects[c].data = "partial"

\* C10: a restore interrupted before its last step leaves the Current
\* Pointer with the value it had when restore was called, for clean=false
\* and for clean=true.
C10_PointerWrittenLast == RestoreReturned("interrupted") => current = last.cur

\* a step in which the coordinator returns to its caller
ReturnStep == pc' = "idle" /\ (pc # "idle" \/ ops' # ops)

\* C11: when restore(tag, clean=false) was interrupted after some of its
\* unlink steps or link tasks took effect, the same restore called again
\* runs to its end without error, with the Current Pointer equal to tag and
\* the working tree equal to the manifest of tag.
C11_RetrySafe ==
    [][(/\ last.name = "restore" /\ last.result = "interrupted" /\ ~last.clean
        /\ last.unlinked \cup last.linked # {}
        /\ ReturnStep
        /\ last'.name = "restore" /\ last'.tag = last.tag /\ ~last'.clean
        /\ last'.result # "interrupted")
       => /\ last'.result = "ok"
          /\ current' = last.tag
          /\ DOMAIN tree' = Values(patches[last.tag])
          /\ \A c \in DOMAIN patches[last.tag] : tree'[patches[last.tag][c]] = c]_vars

\* two files of the directory have identical bytes
HasDuplicates(files) ==
    \E p, q \in DOMAIN files : p # q /\ files[p] = files[q]

\* C12: an add of a directory with two files of identical bytes, not
\* interrupted, succeeds under every interleaving of the store workers and
\* ends with the object of each content in the store and one manifest
\* entry for each content; no store task fails on an object that another
\* task of the batch has sealed.
C12_DuplicatesStored ==
    [][(/\ op.name = "add" /\ pc = "store" /\ ReturnStep
        /\ ~last.disturbed
        /\ HasDuplicates(op.files)
        /\ last'.result # "interrupted")
       => /\ last'.result = "ok"
          /\ op.tag \in DOMAIN patches'
          /\ DOMAIN patches'[op.tag] = {hash_file(op.files[p]) : p \in DOMAIN op.files}
          /\ DOMAIN patches'[op.tag] \subseteq DOMAIN objects']_vars

\* C13: after successful adds and no drop, the objects in the store are
\* exactly the fingerprint keys of the persisted manifests; an add builds
\* store tasks only for fingerprints that are not in the store, and the
\* bytes of an object change only under a store task for it.
C13_StoreIsUnionOfKeys ==
    /\ []((pc = "idle" /\ ~last.disturbed /\ ~last.dropped)
            => DOMAIN objects = UNION {DOMAIN patches[t] : t \in DOMAIN patches})
    /\ [][(pc = "hash" /\ pc' = "store")
            => \A t \in tasks' \ tasks : t.h \notin DOMAIN objects]_vars
    /\ [][\A c \in DOMAIN objects :
             (~\E t \in tasks : t.kind = "store" /\ t.h = c)
                => c \in DOMAIN objects' /\ objects'[c].data = objects[c].data]_vars

\* a second add whose directory shares a content with the first has returned
C13_Witness ==
    /\ pc = "idle" /\ ~last.disturbed /\ ~last.dropped
    /\ last.name = "add" /\ last.result = "ok"
    /\ \E t \in DOMAIN patches :
          t # last.tag /\ DOMAIN patches[t] \cap DOMAIN last.patch # {}
    /\ \E c \in DOMAIN objects : c \notin DOMAIN last.patch

\* restore(tag) returns successfully, called right after the successful
\* add(dirA, tag), on a working tree that was empty or is cleaned first, no
\* operation having been interrupted or having failed
RoundTripStep ==
    /\ ReturnStep
    /\ last.name = "add" /\ last.result = "ok"
    /\ last'.name = "restore" /\ last'.tag = last.tag /\ last'.result = "ok"
    /\ last'.cur = None \/ last'.clean
    /\ ~last'.disturbed

\* the working tree has the paths of the directory, each with its bytes
SameFiles(tr, objs, files) ==
    /\ DOMAIN tr = DOMAIN files
    /\ \A p \in DOMAIN files :
          /\ tr[p] = hash_file(files[p])
          /\ tr[p] \in DOMAIN objs
          /\ objs[tr[p]].data = "complete"

CleanPcs == {"clean_chmod", "clean_rmtree", "clean_seal", "clean_unlink"}

\* C15: an object that add has stored and made read-only stays read-only
\* in every state in which no clean is executing (drop is one step and
\* wipe is not called), also during and after a restore.
C15_StoredStaysReadOnly ==
    [][\A c \in DOMAIN objects :
         (objects[c].ro /\ pc' \notin CleanPcs)
            => c \in DOMAIN objects' /\ objects'[c].ro]_vars

\* the caller starts operation name on tag
CallOf(name, tag) ==
    /\ pc = "idle" /\ ops' # ops
    /\ \/ pc' # "idle" /\ op'.name = name /\ op'.tag = tag
       \/ pc' = "idle" /\ last'.name = name /\ last'.tag = tag

\* the call fails at once: nothing is written and no task is submitted
FailsFast(result) ==
    /\ pc' = "idle" /\ last'.result = result
    /\ UNCHANGED <<objects, patches, current, tree, dirs, tasks>>

\* C16: add with a tag that has a manifest, restore with a tag that has
\* none and drop with a tag that has none each fail before any task runs
\* and leave the store, the manifests, the pointer and the working tree
\* unchanged.
C16_PreconditionsFailFast ==
    [][\A tag \in Tags :
         /\ (CallOf("add", tag) /\ tag \in DOMAIN patches) => FailsFast("exists")
         /\ (CallOf("restore", tag) /\ tag \notin DOMAIN patches) => FailsFast("missing")
         /\ (CallOf("drop", tag) /\ tag \notin DOMAIN patches) => FailsFast("missing")]_vars

\* an add was refused for a tag whose manifest and objects exist
C16_Witness ==
    /\ pc = "idle" /\ last.name = "add" /\ last.result = "exists"
    /\ last.tag \in DOMAIN patches /\ DOMAIN patches[last.tag] # {}

\* C17: clean() called with a Current Pointer present ends with an empty
\* working tree, no Current Pointer and every store object read-only, and
\* none of its steps changes the set of manifests or the set of objects;
\* clean() called with no Current Pointer changes nothing.
C17_Clean ==
    /\ [][(op.name = "clean" /\ ReturnStep /\ last'.result = "ok")
            => /\ tree' = Empty
               /\ current' = None
               /\ \A c \in DOMAIN objects' : objects'[c].ro]_vars
    /\ [][(op.name = "clean" /\ pc' # pc)
            => patches' = patches /\ DOMAIN objects' = DOMAIN objects]_vars
    /\ [][(CallOf("clean", None) /\ current = None)
            => pc' = "idle" /\ UNCHANGED <<objects, patches, current, tree, dirs, tasks>>]_vars

\* the repository after add(empty dir, 'v1'); add(dir, 'v2'); restore('v1');
\* restore('v2') interrupted once "a" was linked: a state Spec reaches in four
\* operations, taken as the start so that two more operations fit the bound
InitAfterInterrupt ==
    /\ objects = [c \in {hash_file("x"), hash_file("y")} |-> [data |-> "complete", ro |-> TRUE]]
    /\ patches = [t \in Tags |-> IF t = "v1" THEN Empty
                                ELSE Put(Put(Empty, hash_file("x"), "a"), hash_file("y"), "d/e/c")]
    /\ current = "v1"
    /\ tree = Put(Empty, "a", hash_file("x"))
    /\ dirs = {""}
    /\ pc = "idle"
    /\ op = NoOp
    /\ tasks = {}
    /\ last = Returned([NoOp EXCEPT !.name = "restore", !.tag = "v2", !.cur = "v1",
                                    !.patch = patches["v2"], !.linked = {"a"}],
                       "interrupted", TRUE, FALSE)
    /\ ops = 0

\* a run starts on a fresh repository or on the one the interrupt left
SpecAfterInterrupt == (Init \/ InitAfterInterrupt) /\ [][Next]_vars

\* the start of SpecAfterInterrupt is a state of Spec (ops aside)
AfterInterruptNotReached ==
    ~(/\ ops = 4 /\ pc = "idle" /\ tasks = {} /\ op = NoOp
      /\ current = "v1" /\ dirs = {""} /\ tree = Put(Empty, "a", hash_file("x"))
      /\ DOMAIN patches = Tags /\ patches["v1"] = Empty
      /\ patches["v2"] = Put(Put(Empty, hash_file("x"), "a"), hash_file("y"), "d/e/c")
      /\ DOMAIN objects = {hash_file("x"), hash_file("y")}
      /\ \A c \in DOMAIN objects : objects[c] = [data |-> "complete", ro |-> TRUE]
      /\ last = Returned([NoOp EXCEPT !.name = "restore", !.tag = "v2", !.cur = "v1",
                                      !.patch = patches["v2"], !.linked = {"a"}],
                         "interrupted", TRUE, FALSE))

\* C18: the candidate set to_remove computed by drop(tag) is the set of
\* fingerprint keys of the dropped manifest that are keys of no surviving
\* manifest, whatever the manifests and the order they are read in.
C18_ToRemoveIsUnreferenced ==
    (pc = "idle" /\ last.name = "drop" /\ last.result = "ok")
        => last.to_remove = {c \in DOMAIN last.patch : ~Referenced(c)}

\* C19: when a worker task of add or restore fails, the operation fails
\* without writing the manifest or the current pointer, and no task of its
\* batch is left when the failure reaches the caller.
C19_NoOrphanedTask ==
    [][(pc \in {"store", "link"} /\ (\E t \in PoolTasks : t.st = "failed")
            /\ ReturnStep /\ last'.result = "error")
        => /\ patches' = patches
           /\ current' = current
           /\ tasks' \subseteq {t \in tasks : t.orphan}]_vars

IsEmptyDir(d) ==
    /\ d \in dirs \ {""}
    /\ ~\E p \in DOMAIN tree : dirname(p) = d
    /\ ~\E e \in dirs \ {""} : dirname(e) = d

\* C20: after an incremental restore (clean=false, from On(v1)) has
\* completed, the working tree holds no empty directory at any depth.
C20_NoEmptyDirectory ==
    (IncrementalReturned /\ ~last.disturbed) => ~\E d \in Dirs : IsEmptyDir(d)

====
